---- MODULE Spec2Model ----
(***************************************************************************)
(* Battle orchestrator of battle.py: the start_battle HTTP handler, the    *)
(* expire_battle_if_empty grace watchdog and the run_battle_sequence       *)
(* coroutine, with the process-wide active_battles registry.               *)
(*                                                                         *)
(* Scheduling: start_battle is an `async def` without any await, so one    *)
(* call is one atomic step of the event loop.  run_battle_sequence yields  *)
(* only at its three asyncio.sleep calls, so the code between two sleeps   *)
(* is one atomic step.  expire_battle_if_empty is a plain `def` run in a   *)
(* worker thread; it touches only the external stores.  Every collaborator *)
(* call (Supabase query, RPC, update) may raise.                           *)
(*                                                                         *)
(* Payments of payments.py: initiate_payment and cashfree_webhook over the *)
(* payment_orders, users and coupons tables.  Both handlers await only the *)
(* request body; their Supabase calls are blocking, so each call of a      *)
(* handler is one atomic step, which an exception of a Supabase call can   *)
(* end between two writes.                                                 *)
(***************************************************************************)
EXTENDS Integers, Sequences, FiniteSets

VARIABLES
    active_battles, \* the module-level set of battle ids being orchestrated
    schedule,       \* battle_schedule.status of each battle
    nq,             \* number of questions the database holds for each battle
    orch,           \* the run_battle_sequence tasks of each battle, by slot
    watchdogs,      \* queued or sleeping expire_battle_if_empty tasks per battle
    lastCall,       \* what the last start_battle / watchdog call did and answered
    realtime,       \* the Realtime endpoint: "up" or "flaky"
    payment_orders, \* the payment_orders table: row k has order_id k
    users,          \* the users table, by id
    coupons,        \* the coupons table, by code
    lastHook        \* what the last initiate_payment / cashfree_webhook call answered

battleVars == <<active_battles, schedule, nq, orch, watchdogs, lastCall, realtime>>

payVars == <<payment_orders, users, coupons, lastHook>>

vars == <<active_battles, schedule, nq, orch, watchdogs, lastCall, realtime,
          payment_orders, users, coupons, lastHook>>

(* ------------------------------ bounds -------------------------------- *)
\* Two battles share the process.  Studied is the battle whose question
\* list ranges over every length up to MaxQuestions and which can have up
\* to MaxWatchdogs watchdogs waiting; the other battle has one question
\* and at most one watchdog.
Battles == {"B1", "B2"}
Studied == "B1"
MaxQuestions == 2
MaxParticipants == 1
MaxWatchdogs == 2
MaxRuns == 2
MaxOrders == 2

(* ------------------------- program constants -------------------------- *)
StatsDwell == 10
LeaderboardDwell == 10

QuestionDwellAsStats == StatsDwell

QuestionDwell == 20

Slots == 1..MaxRuns

\* The number of waiting watchdogs up to which the battle is followed
WatchdogCap(b) == IF b = Studied THEN MaxWatchdogs ELSE 1

(* ------------------------ RPC collaborator ---------------------------- *)
\* The database functions behind supabase.rpc: a battle has the questions
\* Row(1) .. Row(nq[b]); get_next_mcq yields the question that follows the
\* given react_order.
\* The k-th question of a battle: an opaque mcq_id and its ordinal position
Row(k) == [mcq_id |-> 100 + k, react_order |-> k]

get_first_mcq(b) == IF nq[b] = 0 THEN <<>> ELSE <<Row(1)>>

get_next_mcq(b, r) ==
    LET later == {k \in 1..nq[b] : k > r}
    IN  IF later = {} THEN <<>>
        ELSE <<Row(CHOOSE k \in later : \A j \in later : k <= j)>>

(* mcq.get("react_order", 0) *)
ReactOrderOf(mcq) == IF "react_order" \in DOMAIN mcq THEN mcq.react_order ELSE 0

(* --------------------------- broadcast -------------------------------- *)
\* broadcast_event never raises: it appends one message to the channel of
\* the battle; `at` is the sleep time the caller has spent so far.
broadcast_event(log, b, event, payload, at) ==
    Append(log, [topic |-> b, event |-> event, payload |-> payload, at |-> at])

\* What requests.post can yield for one broadcast: a response with a
\* status code or an exception (timeout, connection error).  An endpoint
\* that is up answers every POST with 200.
Responses ==
    IF realtime = "up"
    THEN {[raised |-> FALSE, status_code |-> 200]}
    ELSE {[raised |-> FALSE, status_code |-> c] : c \in {200, 202, 500}}
            \cup {[raised |-> TRUE, status_code |-> 0]}

\* `return res.ok` (requests: status_code < 400), `return False` in except
BroadcastReturn(resp) == IF resp.raised THEN FALSE ELSE resp.status_code < 400

\* The last POST a task or handler made, and what broadcast_event returned
NoPost == [sent |-> FALSE, raised |-> FALSE, status_code |-> 0, returned |-> FALSE]

\* r after one call of broadcast_event that met resp: one POST, no retry;
\* every caller discards the return value.
Posted(r, resp) ==
    [r EXCEPT !.post = [sent |-> TRUE, raised |-> resp.raised,
                        status_code |-> resp.status_code,
                        returned |-> BroadcastReturn(resp)]]

EventTypes(log) == [k \in 1..Len(log) |-> log[k].event]

(* ------------------------- orchestrator tasks ------------------------- *)
IdleRun == [pc |-> "idle", current |-> <<>>, events |-> <<>>, next_args |-> <<>>,
            stats_args |-> <<>>, completed_writes |-> 0, clock |-> 0,
            outcome |-> "none", post |-> NoPost]

PendingRun == [IdleRun EXCEPT !.pc = "pending"]

Live(r) == r.pc \notin {"idle", "done"}

LiveRuns(b) == {i \in Slots : Live(orch[b][i])}

FreeSlots(b) == Slots \ LiveRuns(b)

FirstFreeSlot(b) == CHOOSE i \in FreeSlots(b) : \A j \in FreeSlots(b) : i <= j

\* `raised` names the collaborator call of the handler that raised, if any;
\* `rows` is the number of rows an RPC of a utility endpoint returned.
NoCall == [op |-> "none", battle |-> "none", joined |-> -1, status_code |-> 0,
           message |-> "", events |-> <<>>, scheduled |-> "none", wrote |-> "none",
           raised |-> "none", post |-> NoPost, rows |-> -1]

\* The call ended by an exception of the participants query (no row count
\* was obtained) or of the battle_schedule update.
Raising(call) ==
    [call EXCEPT !.raised = IF call.joined < 0 THEN "battle_participants query"
                            ELSE "battle_schedule update"]

(* ------------------------- payment tables ----------------------------- *)
Students == {"s1", "s2"}

\* The coupon_code of a request without coupon
NoCoupon == ""

\* The one code of the coupons table
Code == "SAVE"

\* A column that is NULL
Null == -1

\* PRICING_MAP
PRICING_MAP ==
    [p \in {"1", "3", "6", "12"} |->
        CASE p = "1" -> 2500 [] p = "3" -> 12000 [] p = "6" -> 20000
          [] p = "12" -> 36000]

\* The rows the coupon can be: ten percent off any plan, or ten percent
\* off the one-month plan only
CouponKinds == {"percent", "one_month"}

CouponRow(kind) ==
    [is_active |-> TRUE, is_redeemed |-> FALSE, redeemed_by_user_id |-> "",
     package_price |-> IF kind = "one_month" THEN PRICING_MAP["1"] ELSE Null,
     discount_amount |-> Null,
     discount_percent |-> 10]

NewUser == [is_paid |-> FALSE, purchased_package |-> "", amount_paid |-> 0,
            subscribed_coupon_code |-> NoCoupon]

\* `authentic` tells whether the request carried both headers and the
\* signature Cashfree computes for its timestamp and body.
NoHook == [op |-> "none", status_code |-> 0, status |-> "", order_id |-> 0,
           authentic |-> FALSE]

\* No order yet, nobody has paid, the coupon is unused
PayInit(kind) ==
    /\ payment_orders = <<>>
    /\ users = [u \in Students |-> NewUser]
    /\ coupons = [c \in {Code} |-> CouponRow(kind)]
    /\ lastHook = NoHook

InitWith(endpoint) ==
    /\ PayInit("percent")
    /\ realtime = endpoint
    /\ active_battles = {}
    /\ schedule = [b \in Battles |-> "Upcoming"]
    /\ \E n \in 0..MaxQuestions :
          nq = [b \in Battles |-> IF b = Studied THEN n ELSE 1]
    /\ orch = [b \in Battles |-> [i \in Slots |-> IdleRun]]
    /\ watchdogs = [b \in Battles |-> 0]
    /\ lastCall = NoCall

Init == InitWith("up")

(* ------------------------- start_battle ------------------------------- *)
\* Results of the battle_participants query when it does not raise: the
\* number of rows with status = joined.
Joined == 0..MaxParticipants

NoParticipantsAlways(n) == TRUE

NoParticipantsNever(n) == FALSE

\* `if not participants`
NoParticipants(n) == n = 0

AlreadyRunningOrWaiting(b) == b \in active_battles \/ watchdogs[b] > 0

AlreadyRunningNever(b) == FALSE

\* `if battle_id in active_battles`
AlreadyRunning(b) == b \in active_battles

RegistryNotAdded(b) == active_battles

\* `active_battles.add(battle_id)`
RegistryAfterAdd(b) == active_battles \cup {b}

RegistryCleared(b) == {}

RegistryKept(b) == active_battles

\* `active_battles.discard(battle_id)` of the finally block
RegistryAfterDiscard(b) == active_battles \ {b}

Http500Swallowed(b, n) ==
    Raising([NoCall EXCEPT !.op = "start_battle", !.battle = b, !.joined = n,
                           !.status_code = 200, !.message = "error"])

\* except Exception -> HTTPException(status_code=500)
Http500(b, n) ==
    Raising([NoCall EXCEPT !.op = "start_battle", !.battle = b, !.joined = n,
                           !.status_code = 500, !.message = "error"])

Http200(b, n, msg, evs, task, status) ==
    [op |-> "start_battle", battle |-> b, joined |-> n, status_code |-> 200,
     message |-> msg, events |-> evs, scheduled |-> task, wrote |-> status,
     raised |-> "none", post |-> NoPost, rows |-> -1]

\* The grace branch: Active is written, the watchdog is queued, the
\* waiting_period notice is broadcast.
StartGrace(b, n, write_raises) ==
    IF write_raises
    THEN /\ lastCall' = Http500(b, n)
         /\ UNCHANGED <<active_battles, schedule, nq, orch, watchdogs, realtime, payVars>>
    ELSE /\ watchdogs[b] < WatchdogCap(b)
         /\ schedule' = [schedule EXCEPT ![b] = "Active"]
         /\ watchdogs' = [watchdogs EXCEPT ![b] = @ + 1]
         /\ \E resp \in Responses :
               lastCall' = Posted(
                   Http200(b, n, "Waiting for players (30-min grace window)",
                           broadcast_event(<<>>, b, "waiting_period",
                                           [message |-> "Waiting for players to join..."], 0),
                           "expire_battle_if_empty", "Active"),
                   resp)
         /\ UNCHANGED <<active_battles, nq, orch, realtime, payVars>>

StartAlready(b, n) ==
    /\ lastCall' = Http200(b, n, "Already running", <<>>, "none", "none")
    /\ UNCHANGED <<active_battles, schedule, nq, orch, watchdogs, realtime, payVars>>

\* The launch branch: the registry insert comes first, then the write of
\* Active, then the orchestrator is queued as a background task.
StartLaunch(b, n, write_raises) ==
    /\ active_battles' = RegistryAfterAdd(b)
    /\ IF write_raises
       THEN /\ lastCall' = Http500(b, n)
            /\ UNCHANGED <<schedule, nq, orch, watchdogs, realtime, payVars>>
       ELSE /\ FreeSlots(b) # {}
            /\ schedule' = [schedule EXCEPT ![b] = "Active"]
            /\ orch' = [orch EXCEPT ![b][FirstFreeSlot(b)] = PendingRun]
            /\ lastCall' = Http200(b, n, "orchestrator launched", <<>>,
                                   "run_battle_sequence", "Active")
            /\ UNCHANGED <<nq, watchdogs, realtime, payVars>>

start_battle(b) ==
    \E lookup_raises \in BOOLEAN, n \in Joined, write_raises \in BOOLEAN :
       IF lookup_raises
       THEN /\ n = 0 /\ ~write_raises
            /\ lastCall' = Http500(b, -1)
            /\ UNCHANGED <<active_battles, schedule, nq, orch, watchdogs, realtime, payVars>>
       ELSE IF NoParticipants(n) THEN StartGrace(b, n, write_raises)
       ELSE IF AlreadyRunning(b) THEN ~write_raises /\ StartAlready(b, n)
       ELSE StartLaunch(b, n, write_raises)

(* --------------------- expire_battle_if_empty ------------------------- *)
\* One step: the watchdog wakes from time.sleep(30 * 60), queries the
\* participants and, when there are none, writes Completed and broadcasts
\* battle_end.  An exception of a collaborator ends the task.
ExpiredSilent(b, n, evs, status) ==
    [op |-> "expire_battle_if_empty", battle |-> b, joined |-> n, status_code |-> 0,
     message |-> "", events |-> <<>>, scheduled |-> "none", wrote |-> status,
     raised |-> "none", post |-> NoPost, rows |-> -1]

Expired(b, n, evs, status) ==
    [op |-> "expire_battle_if_empty", battle |-> b, joined |-> n, status_code |-> 0,
     message |-> "", events |-> evs, scheduled |-> "none", wrote |-> status,
     raised |-> "none", post |-> NoPost, rows |-> -1]

expire_battle_if_empty(b) ==
    /\ watchdogs[b] > 0
    /\ watchdogs' = [watchdogs EXCEPT ![b] = @ - 1]
    /\ \E lookup_raises \in BOOLEAN, n \in Joined, write_raises \in BOOLEAN :
          IF lookup_raises
          THEN /\ n = 0 /\ ~write_raises
               /\ lastCall' = Raising(Expired(b, -1, <<>>, "none"))
               /\ UNCHANGED schedule
          ELSE IF NoParticipants(n)
          THEN IF write_raises
               THEN /\ lastCall' = Raising(Expired(b, n, <<>>, "none"))
                    /\ UNCHANGED schedule
               ELSE /\ schedule' = [schedule EXCEPT ![b] = "Completed"]
                    /\ \E resp \in Responses :
                          lastCall' = Posted(
                              Expired(b, n,
                                  broadcast_event(<<>>, b, "battle_end",
                                      [message |-> "No players joined. Battle expired."], 0),
                                  "Completed"),
                              resp)
          ELSE /\ ~write_raises
               /\ lastCall' = Expired(b, n, <<>>, "none")
               /\ UNCHANGED schedule
    /\ UNCHANGED <<active_battles, nq, orch, realtime, payVars>>

(* ----------------------- run_battle_sequence -------------------------- *)
\* The function returns: by `return`, by `break` or through `except`.
Finish(r, how) == [r EXCEPT !.pc = "done", !.outcome = how]

OnExceptionAnnounces(r, b) ==
    Finish([r EXCEPT !.events = broadcast_event(r.events, b, "battle_end",
                                                [message |-> "error"], r.clock)],
           "error")

\* except Exception as e: the error is logged, nothing else is done.
OnException(r, b) == Finish(r, "error")

EndNoQuestionsSilent(r, b) == Finish(r, "no_mcq")

\* `if not current.data`: battle_end("No MCQs found") and return
EndNoQuestions(r, b) ==
    Finish([r EXCEPT !.events = broadcast_event(r.events, b, "battle_end",
                                                [message |-> "No MCQs found"], r.clock)],
           "no_mcq")

MarkCompletedNoop(b) == schedule

\* battle_schedule.update({"status": "Completed"}) of the orchestrator
MarkCompleted(b) == [schedule EXCEPT ![b] = "Completed"]

\* battle_end("Battle completed") and break, after the write of Completed
EndCompleted(r, b) ==
    Finish([r EXCEPT !.completed_writes = @ + 1,
                     !.events = broadcast_event(r.events, b, "battle_end",
                                                [message |-> "Battle completed"], r.clock)],
           "completed")

NextMcqArgMcqId(r) == r.current[1].mcq_id

\* The react_order handed to get_next_mcq
NextMcqArg(r) == ReactOrderOf(r.current[1])

ShowQuestionSilent(r, b, data) == [r EXCEPT !.pc = "question", !.current = data]

\* broadcast new_question(mcq) and go to sleep for the question dwell
ShowQuestion(r, b, data) ==
    [r EXCEPT !.pc = "question", !.current = data,
              !.events = broadcast_event(r.events, b, "new_question", data[1], r.clock)]

Ends(b, i, r) ==
    /\ orch' = [orch EXCEPT ![b][i] = r]
    /\ active_battles' = RegistryAfterDiscard(b)

Continues(b, i, r) ==
    /\ orch' = [orch EXCEPT ![b][i] = r]
    /\ UNCHANGED active_battles

\* From the start of the task to the first asyncio.sleep(20)
RunFirst(b, i) ==
    /\ orch[b][i].pc = "pending"
    /\ LET r == orch[b][i] IN
       \E rpc_raises \in BOOLEAN, resp \in Responses :
          IF rpc_raises THEN Ends(b, i, OnException(r, b))
          ELSE LET data == get_first_mcq(b) IN
               IF data = <<>>
               THEN Ends(b, i, Posted(EndNoQuestions(r, b), resp))
               ELSE Continues(b, i, Posted(ShowQuestion(r, b, data), resp))
    /\ UNCHANGED <<schedule, nq, watchdogs, lastCall, realtime, payVars>>

\* After asyncio.sleep(20): get_battle_stats, show_stats, asyncio.sleep(10)
RunStats(b, i) ==
    /\ orch[b][i].pc = "question"
    /\ LET r == [orch[b][i] EXCEPT !.clock = @ + QuestionDwell] IN
       \E rpc_raises \in BOOLEAN, resp \in Responses :
          IF rpc_raises THEN Ends(b, i, OnException(r, b))
          ELSE Continues(b, i, Posted(
                 [r EXCEPT !.pc = "stats",
                           !.stats_args = Append(@, r.current[1].mcq_id),
                           !.events = broadcast_event(r.events, b, "show_stats",
                                                      [rows |-> "bar"], r.clock)],
                 resp))
    /\ UNCHANGED <<schedule, nq, watchdogs, lastCall, realtime, payVars>>

\* After asyncio.sleep(10): get_leader_board, update_leaderboard, asyncio.sleep(10)
RunLeaderboard(b, i) ==
    /\ orch[b][i].pc = "stats"
    /\ LET r == [orch[b][i] EXCEPT !.clock = @ + StatsDwell] IN
       \E rpc_raises \in BOOLEAN, resp \in Responses :
          IF rpc_raises THEN Ends(b, i, OnException(r, b))
          ELSE Continues(b, i, Posted(
                 [r EXCEPT !.pc = "leaderboard",
                           !.events = broadcast_event(r.events, b, "update_leaderboard",
                                                      [rows |-> "lead"], r.clock)],
                 resp))
    /\ UNCHANGED <<schedule, nq, watchdogs, lastCall, realtime, payVars>>

\* After asyncio.sleep(10): get_next_mcq, then either the next question or
\* the write of Completed, battle_end and the end of the loop.
RunAdvance(b, i) ==
    /\ orch[b][i].pc = "leaderboard"
    /\ LET r0 == [orch[b][i] EXCEPT !.clock = @ + LeaderboardDwell] IN
       \E rpc_raises \in BOOLEAN, write_raises \in BOOLEAN, resp \in Responses :
          IF rpc_raises
          THEN /\ ~write_raises
               /\ Ends(b, i, OnException(r0, b))
               /\ UNCHANGED schedule
          ELSE LET r == [r0 EXCEPT !.next_args = Append(@, NextMcqArg(r0))]
                   next_q == get_next_mcq(b, NextMcqArg(r0))
               IN  IF next_q = <<>>
                   THEN IF write_raises
                        THEN /\ Ends(b, i, OnException(r, b))
                             /\ UNCHANGED schedule
                        ELSE /\ schedule' = MarkCompleted(b)
                             /\ Ends(b, i, Posted(EndCompleted(r, b), resp))
                   ELSE /\ ~write_raises
                        /\ Continues(b, i, Posted(ShowQuestion(r, b, next_q), resp))
                        /\ UNCHANGED schedule
    /\ UNCHANGED <<nq, watchdogs, lastCall, realtime, payVars>>

run_battle_sequence(b, i) ==
    \/ RunFirst(b, i)
    \/ RunStats(b, i)
    \/ RunLeaderboard(b, i)
    \/ RunAdvance(b, i)

(* ------------------------ utility endpoints --------------------------- *)
\* What the try block of a utility endpoint ends with: the exception of
\* the RPC call, HTTPException(404) when the RPC returned no row, or the
\* success body.
TryLookup(rpc_raises, data) ==
    IF rpc_raises THEN [raised |-> "rpc", status_code |-> 0]
    ELSE IF data = <<>> THEN [raised |-> "HTTPException", status_code |-> 404]
    ELSE [raised |-> "none", status_code |-> 200]

\* `except Exception as e: raise HTTPException(status_code=500)`:
\* HTTPException is an Exception, so the 404 raised inside the try block
\* is caught here as well.
ExceptException(t) == IF t.raised # "none" THEN 500 ELSE t.status_code

\* What the RPC of a utility endpoint can return: no row or one row
LookupData == {<<>>, <<[rows |-> "data"]>>}

Utility(name) ==
    /\ \E rpc_raises \in BOOLEAN, data \in LookupData :
          /\ rpc_raises => data = <<>>
          /\ LET t == TryLookup(rpc_raises, data) IN
             lastCall' = [NoCall EXCEPT !.op = name,
                                        !.status_code = ExceptException(t),
                                        !.raised = IF rpc_raises THEN name ELSE "none",
                                        !.rows = IF rpc_raises THEN -1 ELSE Len(data)]
    /\ UNCHANGED <<active_battles, schedule, nq, orch, watchdogs, realtime, payVars>>

\* POST /battle/get_stats
get_battle_stats == Utility("get_battle_stats")

\* POST /battle/leaderboard
get_leaderboard == Utility("get_leaderboard")

(* ----------------------- minute-tick auto-starter ---------------------- *)
\* The auto-starter is not part of battle.py; it is modelled from the
\* description of the Launch Controller.  M is the set of battles whose
\* battle_schedule row matches the current date and minute.
IntegrityViolationNever(M) == FALSE

\* More than one row matches the tick
IntegrityViolation(M) == Cardinality(M) > 1

\* The tick took no action
Skipped(M) ==
    /\ lastCall' = [NoCall EXCEPT !.op = "check_and_autostart",
                                  !.rows = Cardinality(M)]
    /\ UNCHANGED <<active_battles, schedule, nq, orch, watchdogs, realtime, payVars>>

check_and_autostart(M) ==
    IF M = {} \/ IntegrityViolation(M) THEN Skipped(M)
    ELSE \E b \in M :
            IF schedule[b] = "Upcoming" THEN start_battle(b) ELSE Skipped(M)

(* --------------------------- apply_coupon ----------------------------- *)
Max(a, b) == IF a >= b THEN a ELSE b

Rejected(detail) == [ok |-> FALSE, detail |-> detail, final_amount |-> 0]

\* coupons.select("*").eq("code", coupon_code).eq("is_active", True)
\*        .eq("is_redeemed", False)
CouponLookup(code) ==
    {c \in DOMAIN coupons :
        c = code /\ coupons[c].is_active /\ ~coupons[c].is_redeemed}

apply_coupon(amount, coupon_code) ==
    IF coupon_code = NoCoupon
    THEN [ok |-> TRUE, detail |-> "", final_amount |-> amount]
    ELSE IF CouponLookup(coupon_code) = {}
    THEN Rejected("Invalid or expired coupon")
    ELSE LET coupon == coupons[coupon_code] IN
         IF coupon.is_redeemed THEN Rejected("Coupon already used")
         ELSE IF coupon.package_price \notin {Null, 0}
                 /\ coupon.package_price # amount
         THEN Rejected("Coupon not valid for selected plan")
         ELSE LET discount ==
                      IF coupon.discount_amount # Null THEN coupon.discount_amount
                      ELSE (amount * Max(coupon.discount_percent, 0)) \div 100
              IN  [ok |-> TRUE, detail |-> "",
                   final_amount |-> Max(amount - discount, 0)]

(* ------------------------- initiate_payment --------------------------- *)
\* The plan, student_id and coupon_code a request body can carry
PlanInputs == {"3", "2"}

StudentInputs == Students \cup {""}

CouponInputs == {NoCoupon, Code, "BOGUS"}

\* What can go wrong outside the handler: the users query, the Cashfree
\* order call, the insert into payment_orders
InitiateFailures == {"none", "users", "cashfree", "insert"}

HookAnswer(op, code, status, order_id) ==
    [op |-> op, status_code |-> code, status |-> status, order_id |-> order_id,
     authentic |-> FALSE]

Refused(code, detail) ==
    /\ lastHook' = HookAnswer("initiate_payment", code, detail, 0)
    /\ UNCHANGED <<payment_orders, users, coupons>>

initiate_payment(plan, student_id, coupon_code, fails) ==
    /\ IF plan \notin DOMAIN PRICING_MAP
       THEN fails = "none" /\ Refused(400, "Invalid plan")
       ELSE IF student_id = ""
       THEN fails = "none" /\ Refused(400, "student_id required")
       ELSE IF fails = "users" THEN Refused(500, "users query")
       ELSE LET priced == apply_coupon(PRICING_MAP[plan], coupon_code)
                order_id == Len(payment_orders) + 1
            IN  IF ~priced.ok THEN fails = "none" /\ Refused(400, priced.detail)
                ELSE IF fails = "cashfree"
                THEN Refused(502, "Payment gateway unavailable")
                ELSE IF fails = "insert" THEN Refused(500, "payment_orders insert")
                ELSE /\ Len(payment_orders) < MaxOrders
                     /\ payment_orders' =
                           Append(payment_orders,
                                  [order_id |-> order_id, student_id |-> student_id,
                                   plan |-> plan, amount |-> priced.final_amount,
                                   coupon_code |-> coupon_code,
                                   status |-> "initiated"])
                     /\ lastHook' = HookAnswer("initiate_payment", 200,
                                               "initiated", order_id)
                     /\ UNCHANGED <<users, coupons>>
    /\ UNCHANGED battleVars

(* ------------------------- cashfree_webhook --------------------------- *)
\* A header that is absent
NoHeader == <<>>

\* CASHFREE_SECRET_KEY and a key of somebody else
SecretKey == "cashfree_secret"

OtherKey == "guess"

\* base64(HMAC-SHA256(key, message)): equal digests mean equal key and
\* equal message
Hmac(key, message) == <<key, message>>

VerifyAlways(raw_body, timestamp, signature) == TRUE

\* message = timestamp.encode() + raw_body, compared with the header
verify_webhook_signature(raw_body, timestamp, signature) ==
    Hmac(SecretKey, timestamp \o raw_body) = signature

\* payload.type and payload.data.order.order_id of a body
Events == {"PAYMENT_SUCCESS", "PAYMENT_SUCCESS_WEBHOOK", "PAYMENT_FAILED",
           "PAYMENT_USER_DROPPED"}

Bodies == {<<e, k>> : e \in Events, k \in 1..MaxOrders}

\* Another body than the given one, whose signature an attacker replays
OtherBody(body) == CHOOSE o \in Bodies : o # body

Stamp == <<"1700000000">>

\* The requests that reach POST /webhook, for each body: the delivery of
\* Cashfree, one without signature, one without timestamp, one signed
\* under another key, one carrying the signature of another body
Requests ==
    UNION {{[body |-> b, timestamp |-> Stamp, signature |-> Hmac(SecretKey, Stamp \o b)],
            [body |-> b, timestamp |-> Stamp, signature |-> NoHeader],
            [body |-> b, timestamp |-> NoHeader, signature |-> Hmac(SecretKey, Stamp \o b)],
            [body |-> b, timestamp |-> Stamp, signature |-> Hmac(OtherKey, Stamp \o b)],
            [body |-> b, timestamp |-> Stamp,
             signature |-> Hmac(SecretKey, Stamp \o OtherBody(b))]} : b \in Bodies}

\* Both headers present and the signature is the one of the secret key
\* over this timestamp and this body
Authentic(req) ==
    /\ req.signature # NoHeader
    /\ req.timestamp # NoHeader
    /\ req.signature = Hmac(SecretKey, req.timestamp \o req.body)

\* Where a Supabase call of the handler raises
WebhookFailures == {"none", "lookup", "payment_orders", "users", "coupons"}

AlreadyProcessedNever(order_row) == FALSE

\* `if order_row["status"] == "paid"`
AlreadyProcessed(order_row) == order_row.status = "paid"

\* payment_orders.update({"status": ...}).eq("order_id", order_id)
SetStatus(k, status) == [payment_orders EXCEPT ![k].status = status]

\* users.update({"is_paid": True, ...}).eq("id", student_id)
Activated(order_row) ==
    [users EXCEPT ![order_row.student_id] =
        [is_paid |-> TRUE, purchased_package |-> order_row.plan,
         amount_paid |-> order_row.amount,
         subscribed_coupon_code |-> order_row.coupon_code]]

\* coupons.update({"is_redeemed": True, ...}).eq("code", coupon_code)
Redeemed(order_row) ==
    [c \in DOMAIN coupons |->
        IF c = order_row.coupon_code
        THEN [coupons[c] EXCEPT !.is_redeemed = TRUE,
                                !.redeemed_by_user_id = order_row.student_id]
        ELSE coupons[c]]

\* The handler returns {"status": status}; `auth` is the ghost Authentic
\* of the request.
Returns(auth, status, order_id) ==
    lastHook' = [HookAnswer("cashfree_webhook", 200, status, order_id)
                    EXCEPT !.authentic = auth]

\* A Supabase call raises: the request is answered with status 500
Raises(auth, call, order_id) ==
    lastHook' = [HookAnswer("cashfree_webhook", 500, call, order_id)
                    EXCEPT !.authentic = auth]

\* The PAYMENT_SUCCESS branch: payment_orders first, then users, then the
\* coupon; an exception leaves the writes made before it.
OnSuccess(auth, order_row, fails) ==
    LET k == order_row.order_id IN
    IF fails = "payment_orders"
    THEN /\ Raises(auth, "payment_orders update", k)
         /\ UNCHANGED <<payment_orders, users, coupons>>
    ELSE /\ payment_orders' = SetStatus(k, "paid")
         /\ IF fails = "users"
            THEN /\ Raises(auth, "users update", k)
                 /\ UNCHANGED <<users, coupons>>
            ELSE /\ users' = Activated(order_row)
                 /\ IF order_row.coupon_code = NoCoupon
                    THEN /\ fails = "none"
                         /\ Returns(auth, "subscription_activated", k)
                         /\ UNCHANGED coupons
                    ELSE IF fails = "coupons"
                    THEN /\ Raises(auth, "coupons update", k)
                         /\ UNCHANGED coupons
                    ELSE /\ coupons' = Redeemed(order_row)
                         /\ Returns(auth, "subscription_activated", k)

OnFailed(auth, order_row, fails) ==
    LET k == order_row.order_id IN
    IF fails = "payment_orders"
    THEN /\ Raises(auth, "payment_orders update", k)
         /\ UNCHANGED <<payment_orders, users, coupons>>
    ELSE /\ fails = "none"
         /\ payment_orders' = SetStatus(k, "failed")
         /\ Returns(auth, "payment_failed", k)
         /\ UNCHANGED <<users, coupons>>

Untouched(auth, status, order_id) ==
    /\ Returns(auth, status, order_id)
    /\ UNCHANGED <<payment_orders, users, coupons>>

cashfree_webhook(req, fails) ==
    /\ LET event == req.body[1]
           order_id == req.body[2]
           auth == Authentic(req)
       IN  IF req.signature = NoHeader
           THEN fails = "none" /\ Untouched(auth, "missing_signature", 0)
           ELSE IF req.timestamp = NoHeader
           THEN fails = "none" /\ Untouched(auth, "missing_timestamp", 0)
           ELSE IF ~verify_webhook_signature(req.body, req.timestamp, req.signature)
           THEN fails = "none" /\ Untouched(auth, "signature_mismatch", 0)
           ELSE IF fails = "lookup"
           THEN /\ Raises(auth, "payment_orders query", order_id)
                /\ UNCHANGED <<payment_orders, users, coupons>>
           ELSE IF order_id \notin DOMAIN payment_orders
           THEN fails = "none" /\ Untouched(auth, "order_not_found", order_id)
           ELSE LET order_row == payment_orders[order_id] IN
                IF AlreadyProcessed(order_row)
                THEN fails = "none" /\ Untouched(auth, "already_processed", order_id)
                ELSE IF event \in {"PAYMENT_SUCCESS", "PAYMENT_SUCCESS_WEBHOOK"}
                THEN OnSuccess(auth, order_row, fails)
                ELSE IF event = "PAYMENT_FAILED"
                THEN OnFailed(auth, order_row, fails)
                ELSE fails = "none" /\ Untouched(auth, "ignored", order_id)
    /\ UNCHANGED battleVars

\* The requests to the payments router when the collaborators can fail
\* as F (initiate_payment) and G (cashfree_webhook) say
PayNextWith(F, G) ==
    \/ \E plan \in PlanInputs, student_id \in StudentInputs,
          coupon_code \in CouponInputs, fails \in F :
          initiate_payment(plan, student_id, coupon_code, fails)
    \/ \E req \in Requests, fails \in G :
          cashfree_webhook(req, fails)

PayNext == PayNextWith(InitiateFailures, WebhookFailures)

\* Requests and tasks for the battles of B
NextFor(B) ==
    \/ \E b \in B : start_battle(b)
    \/ \E b \in B : expire_battle_if_empty(b)
    \/ \E b \in B, i \in Slots : run_battle_sequence(b, i)

Next == NextFor(Battles)

Spec == Init /\ [][Next]_vars

\* The behaviours in which the utility endpoints are called as well,
\* battle requests for the studied battle only
UtilitySpec ==
    Init /\ [][NextFor({Studied}) \/ get_battle_stats \/ get_leaderboard]_vars

\* The behaviours with the minute tick, battle requests and tasks for the
\* studied battle only
AutoStartSpec ==
    Init /\ [][\/ NextFor({Studied})
               \/ \E M \in SUBSET Battles : check_and_autostart(M)]_vars

\* The behaviours of the payments router, no battle being played, from
\* each kind of coupon
PayStart ==
    /\ \E kind \in CouponKinds : PayInit(kind)
    /\ realtime = "up"
    /\ active_battles = {}
    /\ schedule = [b \in Battles |-> "Upcoming"]
    /\ nq = [b \in Battles |-> 1]
    /\ orch = [b \in Battles |-> [i \in Slots |-> IdleRun]]
    /\ watchdogs = [b \in Battles |-> 0]
    /\ lastCall = NoCall

PaySpec == PayStart /\ [][PayNext]_vars

\* The same with Supabase and Cashfree never failing
ReliablePaySpec == PayStart /\ [][PayNextWith({"none"}, {"none"})]_vars

\* The behaviours with a flaky Realtime endpoint, requests for the studied
\* battle only
LossySpec == InitWith("flaky") /\ [][NextFor({Studied})]_vars

(* ====================================================================== *)
(* Properties                                                             *)
(* ====================================================================== *)

\* C1 - Mutual exclusion: for every battle, in every reachable state, at
\* most one run_battle_sequence task of that battle is pending or running.
MutualExclusion == \A b \in Battles : Cardinality(LiveRuns(b)) <= 1

\* A start request was refused while the first task was still queued.
MutualExclusionWitness ==
    \E b \in Battles :
       /\ Cardinality(LiveRuns(b)) = 1
       /\ \E i \in Slots : orch[b][i].pc = "pending"
       /\ lastCall.op = "start_battle" /\ lastCall.battle = b
       /\ lastCall.joined > 0 /\ lastCall.message = "Already running"

\* C2 - Registry cleanup: in the step in which a run_battle_sequence task
\* ends (no first question, questions exhausted, or an exception), its
\* battle is not in active_battles.
RegistryCleanup ==
    [][\A b \in Battles, i \in Slots :
          (orch[b][i].pc # "done" /\ orch'[b][i].pc = "done")
             => b \notin active_battles']_vars

\* A task has ended through its except branch and the entry is gone.
RegistryCleanupWitness ==
    \E b \in Battles, i \in Slots :
       /\ orch[b][i].pc = "done" /\ orch[b][i].outcome = "error"
       /\ orch[b][i].events # <<>>
       /\ b \notin active_battles

\* C3 - A start_battle call that ends with status 500 leaves active_battles
\* as it was before the call.
FailedStartLeavesRegistry ==
    [][\A b \in Battles :
          (start_battle(b) /\ lastCall'.status_code = 500)
             => active_battles' = active_battles]_vars

\* C4 (as stated) - Idempotent start: a start_battle call answered with
\* status 200 while an orchestrator of the battle is pending or running
\* returns "Already running" and spawns no second run_battle_sequence.
IdempotentStartAsStated ==
    [][\A b \in Battles :
          (LiveRuns(b) # {} /\ start_battle(b) /\ lastCall'.status_code = 200)
             => /\ lastCall'.message = "Already running"
                /\ orch' = orch]_vars

\* C4 (amended) - a start_battle call made while an orchestrator of the
\* battle is pending or running spawns no second run_battle_sequence and
\* leaves the registry alone; it returns "Already running" when the lookup
\* finds a joined participant, and the waiting response when it finds none.
IdempotentStart ==
    [][\A b \in Battles :
          (LiveRuns(b) # {} /\ start_battle(b))
             => /\ orch' = orch
                /\ active_battles' = active_battles
                /\ lastCall'.scheduled # "run_battle_sequence"
                /\ lastCall'.joined > 0 =>
                      /\ lastCall'.status_code = 200
                      /\ lastCall'.message = "Already running"
                      /\ lastCall'.scheduled = "none"
                      /\ UNCHANGED <<schedule, watchdogs>>
                /\ (lastCall'.joined = 0 /\ lastCall'.status_code = 200) =>
                      lastCall'.message = "Waiting for players (30-min grace window)"]_vars

\* A second start was refused while the orchestrator was in its stats phase.
IdempotentStartWitness ==
    \E b \in Battles, i \in Slots :
       /\ orch[b][i].pc = "stats"
       /\ lastCall.op = "start_battle" /\ lastCall.battle = b
       /\ lastCall.message = "Already running"

Cycle == <<"new_question", "show_stats", "update_leaderboard">>

\* (new_question, show_stats, update_leaderboard) n times, then battle_end
ExpectedEvents(n) ==
    [k \in 1..(3 * n + 1) |->
        IF k = 3 * n + 1 THEN "battle_end" ELSE Cycle[((k - 1) % 3) + 1]]

IsPrefix(s, t) == Len(s) <= Len(t) /\ \A k \in 1..Len(s) : s[k] = t[k]

\* C5 - Broadcast ordering: a run over N >= 1 questions that met no
\* exception has broadcast exactly (new_question, show_stats,
\* update_leaderboard) N times and then one battle_end; until then, what
\* it has broadcast is a prefix of that sequence.
BroadcastOrdering ==
    \A b \in Battles, i \in Slots :
       LET r == orch[b][i] IN
       nq[b] >= 1 =>
          /\ IsPrefix(EventTypes(r.events), ExpectedEvents(nq[b]))
          /\ (r.pc = "done" /\ r.outcome # "error") =>
                EventTypes(r.events) = ExpectedEvents(nq[b])

\* A run over MaxQuestions questions has ended without exception.
BroadcastOrderingWitness ==
    \E b \in Battles, i \in Slots :
       /\ nq[b] = MaxQuestions
       /\ orch[b][i].pc = "done" /\ orch[b][i].outcome = "completed"
       /\ Len(orch[b][i].events) = 3 * MaxQuestions + 1

\* C6 - No-questions termination: when get_first_mcq yields no row, the run
\* broadcasts exactly one battle_end and nothing else.
NoQuestionsTermination ==
    \A b \in Battles, i \in Slots :
       LET r == orch[b][i] IN
       get_first_mcq(b) = <<>> =>
          /\ \A k \in 1..Len(r.events) : r.events[k].event = "battle_end"
          /\ Len(r.events) <= 1
          /\ (r.pc = "done" /\ r.outcome # "error") =>
                EventTypes(r.events) = <<"battle_end">>

\* A run of a battle without questions has ended.
NoQuestionsTerminationWitness ==
    \E b \in Battles, i \in Slots :
       /\ get_first_mcq(b) = <<>>
       /\ orch[b][i].pc = "done" /\ orch[b][i].outcome = "no_mcq"

\* C7 - Collaborator failure: the step in which an RPC or a schedule write
\* raises inside run_battle_sequence broadcasts nothing, ends the run,
\* writes no Completed and removes the battle from active_battles.
CollaboratorFailure ==
    [][\A b \in Battles, i \in Slots :
          (orch[b][i].outcome # "error" /\ orch'[b][i].outcome = "error")
             => /\ orch'[b][i].events = orch[b][i].events
                /\ orch'[b][i].pc = "done"
                /\ orch'[b][i].completed_writes = 0
                /\ schedule' = schedule
                /\ b \notin active_battles']_vars

\* get_battle_stats raised after the first new_question: no show_stats.
CollaboratorFailureWitness ==
    \E b \in Battles, i \in Slots :
       /\ orch[b][i].pc = "done" /\ orch[b][i].outcome = "error"
       /\ EventTypes(orch[b][i].events) = <<"new_question">>
       /\ schedule[b] = "Active"
       /\ b \notin active_battles

NewQuestions(log) == SelectSeq(log, LAMBDA m : m.event = "new_question")

\* C8 - Monotonic advance: the k-th get_next_mcq call of a run carries the
\* react_order of the k-th question broadcast as new_question (the latest
\* one at that moment), and the values of successive calls strictly increase.
MonotonicAdvance ==
    \A b \in Battles, i \in Slots :
       LET r == orch[b][i] IN
       /\ Len(r.next_args) <= Len(NewQuestions(r.events))
       /\ \A k \in 1..Len(r.next_args) :
             r.next_args[k] = NewQuestions(r.events)[k].payload.react_order
       /\ \A j, k \in 1..Len(r.next_args) : j < k => r.next_args[j] < r.next_args[k]

\* A run has called get_next_mcq at least twice.
MonotonicAdvanceWitness ==
    \E b \in Battles, i \in Slots : Len(orch[b][i].next_args) >= 2

\* The event loop resumes every task that is ready: a queued background
\* task is started, and every asyncio.sleep returns.
Fairness == \A b \in Battles, i \in Slots : WF_vars(run_battle_sequence(b, i))

\* The fair behaviours in which the requests name the studied battle only
LiveSpec == Init /\ [][NextFor({Studied})]_vars /\ Fairness

\* C9 - Eventual completion: a launched run over N >= 1 questions either
\* meets a collaborator failure or eventually ends having written
\* Completed to battle_schedule and broadcast battle_end, with its battle
\* out of active_battles.
EventualCompletion ==
    \A b \in Battles, i \in Slots :
       (orch[b][i].pc = "pending" /\ nq[b] >= 1)
          ~> (/\ orch[b][i].pc = "done"
              /\ \/ orch[b][i].outcome = "error"
                 \/ /\ orch[b][i].outcome = "completed"
                    /\ orch[b][i].completed_writes = 1
                    /\ schedule[b] = "Completed"
                    /\ orch[b][i].events[Len(orch[b][i].events)].event = "battle_end"
                    /\ b \notin active_battles)

\* A run has ended by exhausting its questions.
EventualCompletionWitness ==
    \E b \in Battles, i \in Slots :
       /\ nq[b] >= 1
       /\ orch[b][i].pc = "done" /\ orch[b][i].outcome = "completed"
       /\ schedule[b] = "Completed" /\ b \notin active_battles

\* C10 - Zero-participant start: a start_battle call whose lookup finds no
\* joined participant spawns no run_battle_sequence and leaves
\* active_battles unchanged; unless the write of Active raises, it writes
\* Active, broadcasts waiting_period, queues one grace watchdog and returns
\* the waiting response.
ZeroParticipantStart ==
    [][\A b \in Battles :
          (start_battle(b) /\ lastCall'.joined = 0)
             => /\ active_battles' = active_battles
                /\ orch' = orch
                /\ lastCall'.scheduled # "run_battle_sequence"
                /\ lastCall'.status_code = 200 =>
                      /\ schedule'[b] = "Active"
                      /\ lastCall'.wrote = "Active"
                      /\ EventTypes(lastCall'.events) = <<"waiting_period">>
                      /\ lastCall'.events[1].topic = b
                      /\ lastCall'.scheduled = "expire_battle_if_empty"
                      /\ watchdogs' = [watchdogs EXCEPT ![b] = @ + 1]
                      /\ lastCall'.message = "Waiting for players (30-min grace window)"]_vars

\* The waiting response was given and the watchdog is queued.
ZeroParticipantStartWitness ==
    \E b \in Battles :
       /\ lastCall.op = "start_battle" /\ lastCall.battle = b
       /\ lastCall.joined = 0 /\ lastCall.status_code = 200
       /\ watchdogs[b] > 0
       /\ LiveRuns(b) = {} /\ b \notin active_battles

\* C12 - Watchdog no-op on join: a watchdog that wakes and finds a joined
\* participant writes nothing to battle_schedule, broadcasts nothing,
\* leaves active_battles alone and starts no orchestrator.
WatchdogNoOpOnJoin ==
    [][\A b \in Battles :
          (expire_battle_if_empty(b) /\ lastCall'.joined > 0)
             => /\ schedule' = schedule
                /\ lastCall'.wrote = "none"
                /\ lastCall'.events = <<>>
                /\ lastCall'.scheduled = "none"
                /\ active_battles' = active_battles
                /\ orch' = orch]_vars

\* The watchdog found a participant; the battle stays Active with no
\* orchestrator.
WatchdogNoOpOnJoinWitness ==
    \E b \in Battles :
       /\ lastCall.op = "expire_battle_if_empty" /\ lastCall.battle = b
       /\ lastCall.joined > 0
       /\ schedule[b] = "Active" /\ LiveRuns(b) = {} /\ b \notin active_battles

\* C13 (as stated) - every run that ends without exception, by exhausting
\* its questions or by finding none, has written the schedule store
\* exactly once.
ScheduleWrittenOnceAsStated ==
    \A b \in Battles, i \in Slots :
       (orch[b][i].pc = "done" /\ orch[b][i].outcome # "error")
          => orch[b][i].completed_writes = 1

\* C13 (amended) - a step of run_battle_sequence writes the schedule store
\* only when it ends the run on success, and then it writes Completed for
\* its own battle once; a run that finds no question, fails or is still
\* going has written nothing.
ScheduleWriteCount ==
    [][\A b \in Battles, i \in Slots :
          run_battle_sequence(b, i)
             => IF orch'[b][i].outcome = "completed"
                THEN /\ schedule' = [schedule EXCEPT ![b] = "Completed"]
                     /\ orch[b][i].completed_writes = 0
                     /\ orch'[b][i].completed_writes = 1
                     /\ orch'[b][i].pc = "done"
                ELSE /\ schedule' = schedule
                     /\ orch'[b][i].completed_writes = 0]_vars

\* One run ended on success with its single write, another found no question.
ScheduleWriteCountWitness ==
    /\ \E b \in Battles, i \in Slots :
          /\ orch[b][i].outcome = "completed" /\ orch[b][i].completed_writes = 1
          /\ schedule[b] = "Completed"
    /\ \E b \in Battles, i \in Slots :
          /\ orch[b][i].outcome = "no_mcq" /\ orch[b][i].completed_writes = 0

\* C14 - No-questions frame: the step in which a run finds no first
\* question writes nothing to battle_schedule and leaves no entry of the
\* battle in active_battles.
NoQuestionsFrame ==
    [][\A b \in Battles, i \in Slots :
          (orch[b][i].pc = "pending" /\ orch'[b][i].outcome = "no_mcq")
             => /\ schedule' = schedule
                /\ orch'[b][i].completed_writes = 0
                /\ b \notin active_battles']_vars

\* The run of a battle without questions ended; the status is still Active.
NoQuestionsFrameWitness ==
    \E b \in Battles, i \in Slots :
       /\ orch[b][i].pc = "done" /\ orch[b][i].outcome = "no_mcq"
       /\ schedule[b] = "Active"
       /\ b \notin active_battles

\* C16 - Completed is terminal: no step sets the status of a battle that is
\* Completed back to Active.
CompletedIsTerminal ==
    [][\A b \in Battles :
          schedule[b] = "Completed" => schedule'[b] # "Active"]_vars

\* The last run of the battle ended through its except branch and no run
\* of the battle is pending or running.
LastRunFailed(b) ==
    /\ LiveRuns(b) = {}
    /\ \E i \in Slots : orch[b][i].outcome = "error"
    /\ \A i \in Slots : orch[b][i].outcome \in {"none", "error"}

\* C17 - Retry after loop failure: once a run has ended by a collaborator
\* exception, a start_battle call that finds a joined participant and is
\* answered with status 200 launches a new orchestrator.
RetryAfterFailure ==
    [][\A b \in Battles :
          (LastRunFailed(b) /\ start_battle(b)
              /\ lastCall'.joined > 0 /\ lastCall'.status_code = 200)
             => /\ lastCall'.message = "orchestrator launched"
                /\ \E i \in Slots : orch'[b][i].pc = "pending"]_vars

\* C18 (as stated) - Grace-window hand-off: when start_battle has returned
\* the waiting response for a battle and the next start_battle call for it
\* finds a joined participant and is answered with status 200, that call
\* registers the battle, spawns run_battle_sequence and returns the
\* launched response.  Stated for the states in which every registry entry
\* has its orchestrator.
GraceHandOffAsStated ==
    [][\A b \in Battles :
          (/\ \A x \in active_battles : LiveRuns(x) # {}
           /\ lastCall.op = "start_battle" /\ lastCall.battle = b
           /\ lastCall.message = "Waiting for players (30-min grace window)"
           /\ watchdogs[b] > 0
           /\ start_battle(b)
           /\ lastCall'.joined > 0 /\ lastCall'.status_code = 200)
             => /\ lastCall'.message = "orchestrator launched"
                /\ orch' # orch]_vars

\* C18 (amended) - the same, for a battle that is not in active_battles
\* when the call is made.
GraceHandOff ==
    [][\A b \in Battles :
          (watchdogs[b] > 0 /\ b \notin active_battles /\ start_battle(b)
              /\ lastCall'.joined > 0 /\ lastCall'.status_code = 200)
             => /\ lastCall'.message = "orchestrator launched"
                /\ lastCall'.scheduled = "run_battle_sequence"
                /\ active_battles' = active_battles \cup {b}
                /\ schedule'[b] = "Active"
                /\ \E i \in Slots :
                      /\ orch[b][i].pc # "pending"
                      /\ orch'[b][i].pc = "pending"
                      /\ \A j \in Slots \ {i} : orch'[b][j] = orch[b][j]]_vars

\* The orchestrator was launched while the watchdog is still waiting.
GraceHandOffWitness ==
    \E b \in Battles :
       /\ watchdogs[b] > 0
       /\ lastCall.op = "start_battle" /\ lastCall.battle = b
       /\ lastCall.message = "orchestrator launched"
       /\ b \in active_battles
       /\ \E i \in Slots : orch[b][i].pc = "pending"

\* Sleep units between a broadcast and the one that follows it
GapAfter(event) == IF event = "new_question" THEN 20 ELSE 10

\* C20 - Phase timing, in sleep units: show_stats comes 20 after
\* new_question, update_leaderboard 10 after show_stats, the next
\* new_question or the battle_end 10 after update_leaderboard; a run over N
\* questions that ends on success has taken 40 x N.
PhaseTiming ==
    \A b \in Battles, i \in Slots :
       LET r == orch[b][i] IN
       /\ r.events # <<>> => r.events[1].at = 0
       /\ \A k \in 1..(Len(r.events) - 1) :
             r.events[k + 1].at - r.events[k].at = GapAfter(r.events[k].event)
       /\ r.outcome = "completed" =>
             /\ r.clock = 40 * nq[b]
             /\ r.events[Len(r.events)].at = 40 * nq[b]

\* A run over MaxQuestions questions ended after 40 x MaxQuestions units.
PhaseTimingWitness ==
    \E b \in Battles, i \in Slots :
       /\ nq[b] = MaxQuestions
       /\ orch[b][i].outcome = "completed"
       /\ orch[b][i].clock = 40 * MaxQuestions

\* C11 - Grace expiry: a watchdog that wakes, finds no joined participant
\* and meets no exception writes Completed to battle_schedule and
\* broadcasts battle_end for its battle.
GraceExpiry ==
    [][\A b \in Battles :
          (expire_battle_if_empty(b)
              /\ lastCall'.joined = 0 /\ lastCall'.raised = "none")
             => /\ schedule' = [schedule EXCEPT ![b] = "Completed"]
                /\ lastCall'.wrote = "Completed"
                /\ EventTypes(lastCall'.events) = <<"battle_end">>
                /\ lastCall'.events[1].topic = b
                /\ watchdogs' = [watchdogs EXCEPT ![b] = @ - 1]]_vars

\* The grace window of a battle that was waiting ended with no player.
GraceExpiryWitness ==
    \E b \in Battles :
       /\ lastCall.op = "expire_battle_if_empty" /\ lastCall.battle = b
       /\ lastCall.joined = 0 /\ lastCall.wrote = "Completed"
       /\ schedule[b] = "Completed"
       /\ LiveRuns(b) = {}

\* C19 - start() error propagation: a start_battle call in which the
\* participant lookup or a battle_schedule write raises answers with
\* status 500 and queues neither run_battle_sequence nor the watchdog;
\* status 500 is given in no other case.
StartErrorPropagation ==
    [][\A b \in Battles :
          start_battle(b)
             => /\ (lastCall'.raised # "none") <=> (lastCall'.status_code = 500)
                /\ lastCall'.raised # "none" =>
                      /\ lastCall'.scheduled = "none"
                      /\ orch' = orch
                      /\ watchdogs' = watchdogs
                      /\ schedule' = schedule]_vars

\* Both kinds of failure: the last call failed on its schedule write.
StartErrorPropagationWitness ==
    /\ lastCall.op = "start_battle"
    /\ lastCall.status_code = 500
    /\ lastCall.raised = "battle_schedule update"
    /\ lastCall.joined = 0

\* Every POST made so far by a task or handler
LastPosts ==
    {orch[b][i].post : b \in Battles, i \in Slots} \cup {lastCall.post}

\* C15 - Best-effort broadcast: a broadcast_event call whose POST raised or
\* was answered with a status other than 200 has returned false.
FailedBroadcastReturnsFalse ==
    \A p \in LastPosts :
       (p.sent /\ (p.raised \/ p.status_code # 200)) => ~p.returned

\* What does hold of the return value: false when the POST raised or the
\* status is 400 or more.
BroadcastReturnsNotOk ==
    \A p \in LastPosts :
       p.sent => (p.returned <=> (~p.raised /\ p.status_code < 400))

\* C21 - Cross-battle independence: a step of start_battle,
\* expire_battle_if_empty or run_battle_sequence for battle a leaves, for
\* every other battle b, the membership of b in active_battles, the
\* schedule status of b and the current question of every task of b as
\* they were.
CrossBattleIndependence ==
    [][\A a \in Battles : \A b \in Battles \ {a} :
          \/ /\ (b \in active_battles') <=> (b \in active_battles)
             /\ schedule'[b] = schedule[b]
             /\ \A j \in Slots : orch'[b][j].current = orch[b][j].current
          \/ ~(\/ start_battle(a)
               \/ expire_battle_if_empty(a)
               \/ \E i \in Slots : run_battle_sequence(a, i))]_vars

\* One battle has run to completion while another one, still registered,
\* is showing a question.
CrossBattleIndependenceWitness ==
    \E a \in Battles, b \in Battles :
       /\ a # b
       /\ \E i \in Slots : orch[a][i].pc = "done" /\ orch[a][i].outcome = "completed"
       /\ a \notin active_battles
       /\ b \in active_battles /\ schedule[b] = "Active"
       /\ \E j \in Slots : orch[b][j].pc = "question" /\ orch[b][j].current # <<>>

\* Every message handed to broadcast_event so far, by a task or by the
\* last handler call
Broadcasts ==
    UNION {{orch[b][i].events[k] : k \in 1..Len(orch[b][i].events)} :
              b \in Battles, i \in Slots}
       \cup {lastCall.events[k] : k \in 1..Len(lastCall.events)}

EventNames ==
    {"new_question", "show_stats", "update_leaderboard", "battle_end",
     "waiting_period", "battle_start"}

\* C22 - Broadcast payload shape: every payload handed to broadcast_event
\* has the form {type: <event_name>, data: <phase-specific payload>} with
\* event_name one of new_question, show_stats, update_leaderboard,
\* battle_end, waiting_period, battle_start.
PayloadShape ==
    \A m \in Broadcasts :
       /\ m.event \in EventNames
       /\ DOMAIN m.payload = {"type", "data"}
       /\ m.payload.type = m.event

\* C24 - The grace watchdog never ends a battle that is being played: a
\* step of expire_battle_if_empty for a battle that is in active_battles
\* with an orchestrator pending or running writes no Completed status and
\* broadcasts no battle_end.
WatchdogSparesPlayedBattle ==
    [][\A b \in Battles :
          (b \in active_battles /\ LiveRuns(b) # {} /\ expire_battle_if_empty(b))
             => /\ lastCall'.wrote # "Completed"
                /\ schedule' = schedule
                /\ "battle_end" \notin {lastCall'.events[k].event :
                                          k \in 1..Len(lastCall'.events)}]_vars

\* C25 - One watchdog per battle: for every battle, at most one
\* expire_battle_if_empty task is queued or sleeping at any time.
OneWatchdogPerBattle == \A b \in Battles : watchdogs[b] <= 1

UtilityCalls == {"get_battle_stats", "get_leaderboard"}

\* C26 - Not-found status of the utility endpoints: a call of
\* POST /battle/get_stats or POST /battle/leaderboard whose RPC returned no
\* rows is answered with status 404, and a call is answered with status 500
\* only when the RPC call itself raised.
UtilityNotFound ==
    lastCall.op \in UtilityCalls
       => /\ (lastCall.raised = "none" /\ lastCall.rows = 0)
                => lastCall.status_code = 404
          /\ lastCall.status_code = 500 => lastCall.raised = lastCall.op

\* C23 - Auto-start integrity guard: a minute tick on which more than one
\* battle_schedule row matches invokes start for no battle and changes no
\* schedule status, registry entry, task or watchdog.
AutoStartGuard ==
    [][\A M \in SUBSET Battles :
          (Cardinality(M) > 1 /\ check_and_autostart(M))
             => /\ UNCHANGED <<schedule, active_battles, orch, watchdogs>>
                /\ lastCall'.op = "check_and_autostart"
                /\ lastCall'.scheduled = "none"]_vars

\* A tick with two matching rows was skipped while one of the battles
\* was still Upcoming and startable, the other one being played.
AutoStartGuardWitness ==
    /\ lastCall.op = "check_and_autostart" /\ lastCall.rows = 2
    /\ \E b \in Battles : schedule[b] = "Upcoming" /\ b \notin active_battles
    /\ \E b \in Battles : schedule[b] = "Active" /\ LiveRuns(b) # {}

PaidOrders == {k \in DOMAIN payment_orders : payment_orders[k].status = "paid"}

EveryPaidOrderActivated ==
    \A k \in PaidOrders :
       LET row == payment_orders[k] IN
       /\ users[row.student_id].is_paid
       /\ row.coupon_code # NoCoupon => coupons[row.coupon_code].is_redeemed

\* C27 - Paid implies activated: in every state reached by deliveries of
\* the webhook in which the last delivery of Cashfree was answered without
\* error
\* (re-deliveries after a run that raised part-way included), the user of
\* every payment_orders row with status paid has is_paid set, and the
\* coupon of the row, when it has one, is marked is_redeemed.
PaidImpliesActivated ==
    (lastHook.op = "cashfree_webhook" /\ lastHook.authentic
        /\ lastHook.status_code = 200)
       => EveryPaidOrderActivated

\* C28 - Webhook idempotence: a delivery of Cashfree for an order whose
\* status is paid, whatever its event, leaves the payment_orders, users
\* and coupons rows unchanged, and the handler returns already_processed.
WebhookIdempotence ==
    [][(/\ lastHook'.op = "cashfree_webhook"
        /\ lastHook'.authentic
        /\ lastHook'.order_id \in PaidOrders)
          => /\ UNCHANGED <<payment_orders, users, coupons>>
             /\ lastHook'.status_code = 200
                   => lastHook'.status = "already_processed"]_vars

\* A PAYMENT_FAILED (or repeated success) delivery for order 1 was answered
\* already_processed after the subscription had been activated with its
\* coupon.
WebhookIdempotenceWitness ==
    /\ lastHook.op = "cashfree_webhook" /\ lastHook.authentic
    /\ lastHook.status = "already_processed" /\ lastHook.order_id = 1
    /\ payment_orders[1].status = "paid"
    /\ payment_orders[1].coupon_code = Code
    /\ users[payment_orders[1].student_id].is_paid
    /\ coupons[Code].is_redeemed

\* C29 - Coupon single use: over any sequence of initiate_payment and
\* cashfree_webhook calls, a coupon code is the coupon_code of at most one
\* payment_orders row with status paid.
CouponSingleUse ==
    \A c \in DOMAIN coupons :
       Cardinality({k \in PaidOrders : payment_orders[k].coupon_code = c}) <= 1

\* C30 - Unsigned webhooks change nothing: a cashfree_webhook request that
\* lacks the x-webhook-signature or x-webhook-timestamp header, or whose
\* signature is not the HMAC of its timestamp and body under the secret
\* key, changes no payment_orders, users or coupons row.
UnsignedWebhookChangesNothing ==
    [][(lastHook'.op = "cashfree_webhook" /\ ~lastHook'.authentic)
          => UNCHANGED <<payment_orders, users, coupons>>]_vars

\* A request carrying the signature of another body was turned away while
\* the order it names was still waiting for its payment.
UnsignedWebhookChangesNothingWitness ==
    /\ lastHook.op = "cashfree_webhook" /\ ~lastHook.authentic
    /\ lastHook.status = "signature_mismatch"
    /\ Len(payment_orders) >= 1
    /\ \E k \in DOMAIN payment_orders : payment_orders[k].status = "initiated"
    /\ \A u \in Students : ~users[u].is_paid

====
